---- MODULE Spec2Model ----
(***************************************************************************)
(* CPM engine of XEReader: CriticalPathCalculator over a list of Activity  *)
(* objects (src/src/processors/critical_path_calculator.py).               *)
(*                                                                         *)
(* Time is counted in ticks of 0.005 hour (18 s): a datetime is an integer *)
(* number of ticks, a timedelta / duration / float-in-hours a difference   *)
(* of ticks, so the 0.01 hour tolerances of the code are 2 ticks.          *)
(* An Optional value is <<>> (None) or <<v>>.                              *)
(* The XER parser (src/src/parser/xer_parser.py), the activity processor   *)
(* (src/src/processors/activity_processor.py) and the command-line main    *)
(* (src/xereader.py) are modelled beside it, each in its specification.    *)
(***************************************************************************)
EXTENDS Integers, Sequences, FiniteSets, TLC

VARIABLES activities, graph, pc, raised, result, prev, calls, clock, nx_trivial,
          critical, cycles, exported, parser, processor

vars == <<activities, graph, pc, raised, result, prev, calls, clock, nx_trivial, critical,
          cycles, exported, parser, processor>>

\* ---------------------------------------------------------------- bounds
MaxActs == 3
MaxDeps == 3
MaxCalls == 2

\* ------------------------------------------------------- program constants
\* total_float_hours <= 0.01 (2 ticks of 0.005 h)
FloatTolerance == 2
\* abs(duration - max_duration) < 0.01 (2 ticks of 0.005 h)
PathTolerance == 2

\* ------------------------------------------------------------- Optional
None == <<>>
Some(v) == <<v>>
IsSet(o) == o # <<>>

\* --------------------------------------------------------------- helpers
InSeq(s, x) == \E i \in DOMAIN s : s[i] = x
Range(s) == {s[i] : i \in DOMAIN s}
SetMin(S) == CHOOSE x \in S : \A y \in S : x <= y
SetMax(S) == CHOOSE x \in S : \A y \in S : x >= y
Abs(x) == IF x < 0 THEN 0 - x ELSE x

\* task codes: 1..MaxActs are given to the activities of the generated inputs,
\* UnknownCode to none of them (the four-activity scenario uses all of AllCodes)
UnknownCode == MaxActs + 1
AllCodes == 1..UnknownCode

\* (planned_start_date, planned_end_date) of a TASK row
DateProfiles == { <<None, None>>, <<Some(10), Some(12)>>, <<Some(11), Some(14)>> }
\* lag_hours of a dependency, in ticks
Lags == {0 - 2, 0, 1}
\* values datetime.now() can return, in ticks
Nows == {20, 21}
\* pred_type of a TASKPRED row
PredTypes == {"PR_FS", "PR_SS", "PR_FF", "PR_SF"}
\* task_name of the TASK row of a task code: a non-empty string
task_name_of(code) == <<"name", code>>

\* ---------------------------------------------------- activity_processor
\* duration_hours of a TASK row: planned_end - planned_start, 0.0 if a date is missing
duration_of(planned_start, planned_end) ==
    IF IsSet(planned_start) /\ IsSet(planned_end)
    THEN planned_end[1] - planned_start[1]
    ELSE 0

\* Activity(...) as _create_activity_from_row builds it, CPM fields None
Activity(code, profile, succs) ==
    [ task_code |-> code,
      task_name |-> task_name_of(code),
      planned_start_date |-> profile[1],
      planned_end_date |-> profile[2],
      duration_hours |-> duration_of(profile[1], profile[2]),
      successors |-> succs,
      early_start |-> None, early_finish |-> None,
      late_start |-> None, late_finish |-> None,
      total_float_hours |-> None ]

\* DependencyRelation.get_dependency_type: PR_FS -> FS, ...; other strings unchanged
get_dependency_type(pred_type) ==
    CASE pred_type = "PR_FS" -> "FS"
      [] pred_type = "PR_SS" -> "SS"
      [] pred_type = "PR_FF" -> "FF"
      [] pred_type = "PR_SF" -> "SF"
      [] OTHER -> pred_type

\* Dependency(task_code, dependency_type, lag_hours) entries of activity.successors
Dependency(code, dep_type, lag) ==
    [task_code |-> code, dependency_type |-> dep_type, lag_hours |-> lag]

\* ------------------------------------------------------------- nx.DiGraph
\* nodes: insertion order; activity: the 'activity' node attribute (index into
\* the activity list) or None; adj: successors in insertion order; lag and
\* dep_type: the edge attributes
EmptyGraph ==
    [ nodes |-> <<>>,
      activity |-> [c \in AllCodes |-> None],
      adj |-> [c \in AllCodes |-> <<>>],
      lag |-> [e \in AllCodes \X AllCodes |-> 0],
      dep_type |-> [e \in AllCodes \X AllCodes |-> ""] ]

add_node_appending(g, c, i) ==
    [g EXCEPT !.nodes = Append(g.nodes, c), !.activity[c] = Some(i)]
add_node(g, c, i) ==
    [g EXCEPT !.nodes = IF InSeq(g.nodes, c) THEN g.nodes ELSE Append(g.nodes, c),
              !.activity[c] = Some(i)]

add_edge(g, u, v, lag, dep_type) ==
    LET n1 == IF InSeq(g.nodes, u) THEN g.nodes ELSE Append(g.nodes, u)
        n2 == IF InSeq(n1, v) THEN n1 ELSE Append(n1, v)
    IN [g EXCEPT !.nodes = n2,
                 !.adj[u] = IF InSeq(g.adj[u], v) THEN g.adj[u] ELSE Append(g.adj[u], v),
                 !.lag[<<u, v>>] = lag,
                 !.dep_type[<<u, v>>] = dep_type]

HasEdge(g, u, v) == InSeq(g.adj[u], v)
NodeSet(g) == Range(g.nodes)
predecessors(g, v) == {u \in NodeSet(g) : HasEdge(g, u, v)}
successors_of(g, u) == Range(g.adj[u])
in_degree(g, v) == Cardinality(predecessors(g, v))
out_degree(g, u) == Len(g.adj[u])

\* _build_graph: first loop (nodes), then second loop (edges)
RECURSIVE AddNodes(_, _, _)
AddNodes(g, acts, i) ==
    IF i > Len(acts) THEN g
    ELSE AddNodes(add_node(g, acts[i].task_code, i), acts, i + 1)

RECURSIVE AddSuccessorEdges(_, _, _, _)
AddSuccessorEdges(g, code, succs, k) ==
    IF k > Len(succs) THEN g
    ELSE AddSuccessorEdges(add_edge(g, code, succs[k].task_code, succs[k].lag_hours,
                                    succs[k].dependency_type),
                           code, succs, k + 1)

RECURSIVE AddEdges(_, _, _)
AddEdges(g, acts, i) ==
    IF i > Len(acts) THEN g
    ELSE AddEdges(AddSuccessorEdges(g, acts[i].task_code, acts[i].successors, 1), acts, i + 1)

build_graph(g, acts) == AddEdges(AddNodes(g, acts, 1), acts, 1)

\* nodes reachable from the set S by one or more edges
RECURSIVE ReachClosure(_, _)
ReachClosure(g, S) ==
    LET T == S \cup UNION {successors_of(g, u) : u \in S}
    IN IF T = S THEN S ELSE ReachClosure(g, T)

Reachable(g, u) == ReachClosure(g, successors_of(g, u))

has_cycles_never(g) == FALSE
has_cycles_always(g) == TRUE
\* has_cycles: nx.find_cycle finds a directed cycle (self-loops included)
has_cycles(g) == \E v \in NodeSet(g) : v \in Reachable(g, v)

\* ------------------------------------------------------ nx.simple_cycles
\* injective node sequences of length k
RECURSIVE InjSeqs(_, _)
InjSeqs(S, k) ==
    IF k = 0 THEN {<<>>}
    ELSE UNION { {Append(s, x) : x \in S \ Range(s)} : s \in InjSeqs(S, k - 1) }

IsCycle(g, s) ==
    /\ Len(s) >= 1
    /\ \A i \in 1..(Len(s) - 1) : HasEdge(g, s[i], s[i + 1])
    /\ HasEdge(g, s[Len(s)], s[1])

simple_cycles_set_rotations(g) ==
    UNION { {s \in InjSeqs(NodeSet(g), k) : IsCycle(g, s)} : k \in 1..Len(g.nodes) }
simple_cycles_set_noloops(g) ==
    UNION { {s \in InjSeqs(NodeSet(g), k) : IsCycle(g, s) /\ s[1] = SetMin(Range(s))}
            : k \in 2..Len(g.nodes) }
\* the elementary cycles of the graph, each written from its smallest node (the
\* rotation and the enumeration order of nx.simple_cycles are the library's)
simple_cycles_set(g) ==
    UNION { {s \in InjSeqs(NodeSet(g), k) : IsCycle(g, s) /\ s[1] = SetMin(Range(s))}
            : k \in 1..Len(g.nodes) }

SeqKey(s) == IF Len(s) = 0 THEN 0
             ELSE LET b == UnknownCode + 1
                      RECURSIVE Enc(_)
                      Enc(k) == IF k = 0 THEN 0 ELSE Enc(k - 1) * b + s[k]
                  IN Enc(Len(s))

RECURSIVE SortByKey(_)
SortByKey(S) ==
    IF S = {} THEN <<>>
    ELSE LET m == CHOOSE x \in S : \A y \in S : SeqKey(x) <= SeqKey(y)
         IN <<m>> \o SortByKey(S \ {m})

simple_cycles(g) == SortByKey(simple_cycles_set(g))

\* the name detect_cycles lists for a task code: the activity's task_name,
\* '(no name)' when it is empty, '(unknown)' when no activity has the code
cycle_task_name(acts, code) ==
    IF \E i \in DOMAIN acts : acts[i].task_code = code
    THEN LET a == acts[SetMax({i \in DOMAIN acts : acts[i].task_code = code})]
         IN IF a.task_name = "" THEN "(no name)" ELSE a.task_name
    ELSE "(unknown)"

\* detect_cycles: one CycleInfo per raw cycle, cycle_id = i + 1
detect_cycles(g, acts) ==
    LET raw == simple_cycles(g)
    IN [i \in 1..Len(raw) |->
          [cycle_id |-> i,
           task_codes |-> raw[i],
           task_names |-> [k \in 1..Len(raw[i]) |-> cycle_task_name(acts, raw[i][k])],
           length |-> Len(raw[i])]]

\* -------------------------------------------------- nx.topological_sort
RECURSIVE DecChildren(_, _, _)
DecChildren(children, k, st) ==
    IF k > Len(children) THEN st
    ELSE LET c == children[k]
             d == st.indeg[c] - 1
         IN DecChildren(children, k + 1,
                [indeg |-> [st.indeg EXCEPT ![c] = d],
                 zero |-> IF d = 0 THEN Append(st.zero, c) ELSE st.zero])

RECURSIVE ProcessGeneration(_, _, _, _)
ProcessGeneration(g, gen, j, st) ==
    IF j > Len(gen) THEN st
    ELSE ProcessGeneration(g, gen, j + 1, DecChildren(g.adj[gen[j]], 1, st))

RECURSIVE TopoGenerations(_, _, _, _)
TopoGenerations(g, gen, indeg, out) ==
    IF gen = <<>>
    THEN [order |-> out, feasible |-> \A v \in NodeSet(g) : indeg[v] = 0]
    ELSE LET st == ProcessGeneration(g, gen, 1, [indeg |-> indeg, zero |-> <<>>])
         IN TopoGenerations(g, st.zero, st.indeg, out \o gen)

insertion_order(g) == [order |-> g.nodes, feasible |-> TRUE]
\* topological_generations flattened; feasible = FALSE is NetworkXUnfeasible
topological_sort(g) ==
    LET indeg == [v \in AllCodes |-> in_degree(g, v)]
        zero == SelectSeq(g.nodes, LAMBDA v : indeg[v] = 0)
    IN TopoGenerations(g, zero, indeg, <<>>)

Reverse(s) == [i \in 1..Len(s) |-> s[Len(s) + 1 - i]]

\* ------------------------------------------------------------ the passes
Error(type, message) == [type |-> type, message |-> message, cycles |-> <<>>]

\* min of the planned_start_date values that are set, default datetime.now()
project_start_of(acts, now) ==
    LET S == {acts[i].planned_start_date[1] :
                i \in {j \in DOMAIN acts : IsSet(acts[j].planned_start_date)}}
    IN IF S = {} THEN now ELSE SetMin(S)

project_end_padded(acts, now) ==
    LET S == {acts[i].early_finish[1] :
                i \in {j \in DOMAIN acts : IsSet(acts[j].early_finish)}}
    IN IF S = {} THEN now ELSE SetMax(S) + FloatTolerance + 1
\* max of the early_finish values that are set, default datetime.now()
project_end_of(acts, now) ==
    LET S == {acts[i].early_finish[1] :
                i \in {j \in DOMAIN acts : IsSet(acts[j].early_finish)}}
    IN IF S = {} THEN now ELSE SetMax(S)

ActOf(g, acts, node) == acts[g.activity[node][1]]

early_start_by_kind(g, acts, node, project_start) ==
    IF in_degree(g, node) = 0 THEN project_start
    ELSE SetMax({project_start} \cup
                {(IF g.dep_type[<<p, node>>] \in {"SS", "SF"}
                  THEN ActOf(g, acts, p).early_start[1]
                  ELSE ActOf(g, acts, p).early_finish[1]) + g.lag[<<p, node>>] :
                   p \in {q \in predecessors(g, node) :
                            IsSet(ActOf(g, acts, q).early_finish)}})
early_start_unclamped(g, acts, node, project_start) ==
    IF in_degree(g, node) = 0 THEN project_start
    ELSE SetMax({ActOf(g, acts, p).early_finish[1] + g.lag[<<p, node>>] :
                   p \in predecessors(g, node)})
\* body of the forward loop: the early_start given to the activity of node
early_start_of(g, acts, node, project_start) ==
    IF in_degree(g, node) = 0 THEN project_start
    ELSE SetMax({project_start} \cup
                {ActOf(g, acts, p).early_finish[1] + g.lag[<<p, node>>] :
                   p \in {q \in predecessors(g, node) :
                            IsSet(ActOf(g, acts, q).early_finish)}})

early_finish_before(es, duration) == es - duration
\* early_finish = early_start + timedelta(hours=duration_hours)
early_finish_of(es, duration) == es + duration

RECURSIVE ForwardLoop(_, _, _, _, _)
ForwardLoop(g, acts, order, k, project_start) ==
    IF k > Len(order) THEN [acts |-> acts, err |-> None]
    ELSE LET node == order[k] IN
         IF ~IsSet(g.activity[node])
         THEN [acts |-> acts, err |-> Some(Error("KeyError", "activity"))]
         ELSE LET i == g.activity[node][1]
                  es == early_start_of(g, acts, node, project_start)
              IN ForwardLoop(g,
                    [acts EXCEPT ![i].early_start = Some(es),
                                 ![i].early_finish = Some(early_finish_of(es, acts[i].duration_hours))],
                    order, k + 1, project_start)

forward_pass(g, acts, now) ==
    LET t == topological_sort(g)
    IN IF ~t.feasible
       THEN [acts |-> acts, err |-> Some(Error("NetworkXUnfeasible", "Graph contains a cycle"))]
       ELSE ForwardLoop(g, acts, t.order, 1, project_start_of(acts, now))

late_finish_unclamped(g, acts, node, project_end) ==
    IF out_degree(g, node) = 0 THEN project_end
    ELSE SetMin({ActOf(g, acts, s).late_start[1] - g.lag[<<node, s>>] :
                   s \in successors_of(g, node)})
\* body of the backward loop: the late_finish given to the activity of node
late_finish_of(g, acts, node, project_end) ==
    IF out_degree(g, node) = 0 THEN project_end
    ELSE SetMin({project_end} \cup
                {ActOf(g, acts, s).late_start[1] - g.lag[<<node, s>>] :
                   s \in {q \in successors_of(g, node) :
                            IsSet(ActOf(g, acts, q).late_start)}})

\* late_start = late_finish - timedelta(hours=duration_hours)
late_start_of(lf, duration) == lf - duration

RECURSIVE BackwardLoop(_, _, _, _, _)
BackwardLoop(g, acts, order, k, project_end) ==
    IF k > Len(order) THEN [acts |-> acts, err |-> None]
    ELSE LET node == order[k] IN
         IF ~IsSet(g.activity[node])
         THEN [acts |-> acts, err |-> Some(Error("KeyError", "activity"))]
         ELSE LET i == g.activity[node][1]
                  lf == late_finish_of(g, acts, node, project_end)
              IN BackwardLoop(g,
                    [acts EXCEPT ![i].late_finish = Some(lf),
                                 ![i].late_start = Some(late_start_of(lf, acts[i].duration_hours))],
                    order, k + 1, project_end)

backward_pass(g, acts, now) ==
    LET t == topological_sort(g)
    IN IF ~t.feasible
       THEN [acts |-> acts, err |-> Some(Error("NetworkXUnfeasible", "Graph contains a cycle"))]
       ELSE BackwardLoop(g, acts, Reverse(t.order), 1, project_end_of(acts, now))

total_float_from_finish(a) ==
    Some(IF IsSet(a.late_finish) /\ IsSet(a.early_start)
         THEN a.late_finish[1] - a.early_start[1]
         ELSE 0)
total_float_accumulated(a) ==
    Some((IF IsSet(a.total_float_hours) THEN a.total_float_hours[1] ELSE 0)
         + (IF IsSet(a.late_start) /\ IsSet(a.early_start)
            THEN a.late_start[1] - a.early_start[1]
            ELSE 0))
\* total_float_hours of one activity: late_start - early_start, 0.0 if one is unset
total_float_of(a) ==
    Some(IF IsSet(a.late_start) /\ IsSet(a.early_start)
         THEN a.late_start[1] - a.early_start[1]
         ELSE 0)

calculate_total_float(acts) ==
    [i \in DOMAIN acts |-> [acts[i] EXCEPT !.total_float_hours = total_float_of(acts[i])]]

\* ------------------------------------------------- criticality and paths
critical_float_strict(a) ==
    IsSet(a.total_float_hours) /\ a.total_float_hours[1] <= 0
\* the test of _identify_critical_activities on one activity
critical_float(a) ==
    IsSet(a.total_float_hours) /\ a.total_float_hours[1] <= FloatTolerance

\* the indices of the critical activities, in list order
identify_critical_activities(acts) ==
    SelectSeq([i \in 1..Len(acts) |-> i], LAMBDA i : critical_float(acts[i]))

\* task_code_to_activity[code]: the dict keeps the last activity of a code
task_code_to_activity(acts, code) ==
    SetMax({i \in DOMAIN acts : acts[i].task_code = code})

\* in- and out-degree in self.graph.subgraph(C)
sub_in_degree(g, C, v) == Cardinality({u \in C : HasEdge(g, u, v)})
sub_out_degree(g, C, u) == Cardinality(successors_of(g, u) \cap C)

\* depth-first enumeration of the simple paths that extend path to target t
\* inside the node set C, children taken in adjacency order from index k
RECURSIVE SimplePathsDFS(_, _, _, _, _)
SimplePathsDFS(g, C, t, path, k) ==
    LET children == g.adj[path[Len(path)]] IN
    IF k > Len(children) THEN <<>>
    ELSE LET c == children[k]
             here == IF c \notin C \/ InSeq(path, c) THEN <<>>
                     ELSE IF c = t THEN <<Append(path, c)>>
                     ELSE SimplePathsDFS(g, C, t, Append(path, c), 1)
         IN here \o SimplePathsDFS(g, C, t, path, k + 1)

all_simple_paths_with_trivial(g, C, s, t, trivial) ==
    IF s = t THEN << <<s>> >> ELSE SimplePathsDFS(g, C, t, <<s>>, 1)
\* nx.all_simple_paths(critical_graph, s, t); for s = t the library yields the
\* single-node path [s] from networkx 3.2 on (trivial) and nothing before
all_simple_paths(g, C, s, t, trivial) ==
    IF s = t THEN (IF trivial THEN << <<s>> >> ELSE <<>>)
    ELSE SimplePathsDFS(g, C, t, <<s>>, 1)

RECURSIVE PathsOverEnds(_, _, _, _, _, _)
PathsOverEnds(g, C, s, ends, k, trivial) ==
    IF k > Len(ends) THEN <<>>
    ELSE all_simple_paths(g, C, s, ends[k], trivial)
         \o PathsOverEnds(g, C, s, ends, k + 1, trivial)

RECURSIVE PathsOverStarts(_, _, _, _, _, _)
PathsOverStarts(g, C, starts, ends, j, trivial) ==
    IF j > Len(starts) THEN <<>>
    ELSE PathsOverEnds(g, C, starts[j], ends, 1, trivial)
         \o PathsOverStarts(g, C, starts, ends, j + 1, trivial)

RECURSIVE SumDurations(_, _, _)
SumDurations(acts, path, k) ==
    IF k > Len(path) THEN 0
    ELSE acts[task_code_to_activity(acts, path[k])].duration_hours
         + SumDurations(acts, path, k + 1)

path_duration_first(acts, path) ==
    acts[task_code_to_activity(acts, path[1])].duration_hours
\* sum of duration_hours over the task codes of a path
path_duration(acts, path) == SumDurations(acts, path, 1)

path_selected_any(duration, max_duration) == duration <= max_duration
path_selected_inclusive(duration, max_duration) ==
    Abs(duration - max_duration) <= PathTolerance
\* abs(duration - max_duration) < 0.01
path_selected(duration, max_duration) ==
    Abs(duration - max_duration) < PathTolerance

\* _find_critical_paths: crit is the list of critical activity indices;
\* the result is a list of paths, each a list of activity indices
find_critical_paths(g, acts, crit, trivial) ==
    LET C == {acts[crit[k]].task_code : k \in DOMAIN crit}
        \* node order of the subgraph view: the graph's order, filtered
        cnodes == SelectSeq(g.nodes, LAMBDA v : v \in C)
        start_nodes == SelectSeq(cnodes, LAMBDA v : sub_in_degree(g, C, v) = 0)
        end_nodes == SelectSeq(cnodes, LAMBDA v : sub_out_degree(g, C, v) = 0)
        all_paths == PathsOverStarts(g, C, start_nodes, end_nodes, 1, trivial)
        max_duration == SetMax({path_duration(acts, all_paths[k]) : k \in DOMAIN all_paths})
        chosen == SelectSeq(all_paths,
                     LAMBDA p : path_selected(path_duration(acts, p), max_duration))
    IN IF start_nodes = <<>> \/ end_nodes = <<>> THEN <<crit>>
       ELSE IF all_paths = <<>> THEN <<crit>>
       ELSE [k \in 1..Len(chosen) |->
               [m \in 1..Len(chosen[k]) |-> task_code_to_activity(acts, chosen[k][m])]]

project_duration_absolute(acts) ==
    LET EF == {acts[i].early_finish[1] : i \in {j \in DOMAIN acts : IsSet(acts[j].early_finish)}}
    IN IF EF = {} THEN 0 ELSE SetMax(EF)
\* _calculate_project_duration: max(early_finish) - min(early_start), in hours
calculate_project_duration(acts) ==
    LET ES == {acts[i].early_start[1] : i \in {j \in DOMAIN acts : IsSet(acts[j].early_start)}}
        EF == {acts[i].early_finish[1] : i \in {j \in DOMAIN acts : IsSet(acts[j].early_finish)}}
    IN IF Len(acts) = 0 \/ ES = {} \/ EF = {} THEN 0
       ELSE SetMax(EF) - SetMin(ES)

calculate_result_unguarded(g, acts, trivial) ==
    LET crit == identify_critical_activities(acts)
    IN [paths |-> find_critical_paths(g, acts, crit, trivial),
        duration |-> calculate_project_duration(acts)]
\* the tail of calculate(): lines 112-124
calculate_result(g, acts, trivial) ==
    LET crit == identify_critical_activities(acts)
    IN IF crit = <<>>
       THEN [paths |-> <<>>, duration |-> 0]
       ELSE [paths |-> find_critical_paths(g, acts, crit, trivial),
             duration |-> calculate_project_duration(acts)]

\* -------------------------------------------------------------- exporters
\* Activity.to_critical_path_dict(sequence): the fields the claims speak about
to_critical_path_dict(a, sequence) ==
    [sequence |-> sequence, task_code |-> a.task_code, task_name |-> a.task_name]

json_paths_data_longest_primary(acts, critical_paths) ==
    [path_idx \in 1..Len(critical_paths) |->
       LET path == critical_paths[path_idx] IN
       [path_id |-> path_idx,
        is_primary |-> (\A k \in DOMAIN critical_paths : Len(critical_paths[k]) <= Len(path)),
        activity_count |-> Len(path),
        activities |-> [seq \in 1..Len(path) |-> to_critical_path_dict(acts[path[seq]], seq)]]]
\* JSONExporter.export_critical_path: the critical_paths array
json_paths_data(acts, critical_paths) ==
    [path_idx \in 1..Len(critical_paths) |->
       LET path == critical_paths[path_idx] IN
       [path_id |-> path_idx,
        is_primary |-> (path_idx = 1),
        activity_count |-> Len(path),
        activities |-> [seq \in 1..Len(path) |-> to_critical_path_dict(acts[path[seq]], seq)]]]

\* MarkdownExporter.export_critical_path: the paths_dicts list
markdown_paths_dicts(acts, critical_paths) ==
    [path_idx \in 1..Len(critical_paths) |->
       LET path == critical_paths[path_idx] IN
       [path_id |-> path_idx,
        is_primary |-> (path_idx = 1),
        activity_count |-> Len(path),
        activities |-> [seq \in 1..Len(path) |-> to_critical_path_dict(acts[path[seq]], seq)]]]

\* the heading _generate_critical_path_markdown gives a path
path_label(path) == IF path.is_primary THEN "Primary Path" ELSE "Alternate Path"

\* ------------------------------------------------------------------ input
DepValues(n) ==
    [pred : 1..n, succ : (1..n) \cup {UnknownCode}, lag : Lags, pred_type : {"PR_FS"}]
DepKey(d) == d.pred * (UnknownCode + 1) + d.succ

\* TASKPRED relations, at most MaxDeps, listed by predecessor then successor
DepLists(n) ==
    UNION { {s \in [1..k -> DepValues(n)] :
                \A i \in 1..(k - 1) : DepKey(s[i]) <= DepKey(s[i + 1])}
            : k \in 0..MaxDeps }

\* a list is regular when no relation is a self-loop, none names an unknown
\* task code and no two relations join the same pair of activities
RegularDeps(s) ==
    /\ \A i \in DOMAIN s : s[i].pred # s[i].succ /\ s[i].succ # UnknownCode
    /\ \A i \in 1..(Len(s) - 1) : DepKey(s[i]) < DepKey(s[i + 1])

\* the date profiles explored with a dependency list: every assignment for a
\* regular list, one common profile for the other lists
ProfilesFor(n, deps) ==
    IF RegularDeps(deps) THEN [1..n -> DateProfiles]
    ELSE {[i \in 1..n |-> p] : p \in DateProfiles}

SuccessorsFrom(deps, i) ==
    LET mine == SelectSeq(deps, LAMBDA d : d.pred = i)
    IN [k \in 1..Len(mine) |->
          Dependency(mine[k].succ, get_dependency_type(mine[k].pred_type), mine[k].lag)]

\* date profiles with a planned_end_date before the planned_start_date too
\* (validate_activity rejects it; the calculator takes any Activity list)
SignedProfiles == { <<None, None>>, <<Some(10), Some(12)>>, <<Some(12), Some(10)>> }

\* ------------------------------------------------------------ the machine
Init ==
    /\ \E n \in 0..MaxActs :
         \E deps \in DepLists(n) :
           \E profiles \in ProfilesFor(n, deps) :
             activities = [i \in 1..n |-> Activity(i, profiles[i], SuccessorsFrom(deps, i))]
    /\ graph = EmptyGraph
    /\ pc = "idle"
    /\ raised = None
    /\ result = None
    /\ prev = None
    /\ calls = 0
    /\ clock = SetMin(Nows)
    /\ nx_trivial = None
    /\ critical = <<>>
    /\ cycles = None
    /\ exported = None
    /\ parser = None
    /\ processor = None

\* a newly constructed calculator: empty graph, nothing computed
NewCalculator ==
    /\ graph = EmptyGraph
    /\ pc = "idle"
    /\ raised = None
    /\ result = None
    /\ prev = None
    /\ calls = 0
    /\ clock = SetMin(Nows)
    /\ nx_trivial = None
    /\ critical = <<>>
    /\ cycles = None
    /\ exported = None
    /\ parser = None
    /\ processor = None

\* activities with signed durations over the regular dependency lists
InitSigned ==
    /\ \E n \in 0..MaxActs :
         \E deps \in {d \in DepLists(n) : RegularDeps(d)} :
           \E profiles \in [1..n -> SignedProfiles] :
             activities = [i \in 1..n |-> Activity(i, profiles[i], SuccessorsFrom(deps, i))]
    /\ NewCalculator

\* activities of one common date profile over the regular dependency lists
InitEdit ==
    /\ \E n \in 0..MaxActs :
         \E deps \in {d \in DepLists(n) : RegularDeps(d)} :
           \E p \in DateProfiles :
             activities = [i \in 1..n |-> Activity(i, p, SuccessorsFrom(deps, i))]
    /\ NewCalculator

\* the lags explored together with the relationship kinds
KindLags == {0, 1}
\* the date profiles explored with them: those that give a duration
KindProfiles == {p \in DateProfiles : IsSet(p[1]) /\ IsSet(p[2])}

\* activities of one common dated profile over the regular dependency lists,
\* every relation with any of the four pred_type values
InitKinds ==
    /\ \E n \in 0..MaxActs :
         \E deps \in {d \in DepLists(n) :
                         RegularDeps(d) /\ \A k \in DOMAIN d : d[k].lag \in KindLags} :
           \E kinds \in [DOMAIN deps -> PredTypes] :
             \E p \in KindProfiles :
               LET typed == [k \in DOMAIN deps |-> [deps[k] EXCEPT !.pred_type = kinds[k]]]
               IN activities = [i \in 1..n |-> Activity(i, p, SuccessorsFrom(typed, i))]
    /\ NewCalculator

\* calculate(), line 101: self._build_graph()
BuildGraph ==
    /\ pc = "idle"
    /\ calls < MaxCalls
    /\ graph' = build_graph(graph, activities)
    /\ pc' = "built"
    /\ calls' = calls + 1
    /\ prev' = result
    /\ result' = None
    /\ raised' = None
    /\ UNCHANGED <<activities, clock, nx_trivial, critical, cycles, exported>>
    /\ UNCHANGED <<parser, processor>>

\* calculate(), lines 104-105: the cycle gate
CheckCycles ==
    /\ pc = "built"
    /\ IF has_cycles(graph)
       THEN /\ pc' = "raised"
            /\ raised' = Some(Error("ValueError",
                                    "Graph contains cycles - cannot calculate critical path"))
       ELSE /\ pc' = "checked"
            /\ UNCHANGED raised
    /\ UNCHANGED <<activities, graph, result, prev, calls, clock, nx_trivial, critical, cycles, exported>>
    /\ UNCHANGED <<parser, processor>>

NoPlannedStart == \A i \in DOMAIN activities : ~IsSet(activities[i].planned_start_date)

\* calculate(), line 108: self._forward_pass()
ForwardPass ==
    /\ pc = "checked"
    /\ \E now \in IF NoPlannedStart THEN {t \in Nows : t >= clock} ELSE {clock} :
         LET r == forward_pass(graph, activities, now) IN
         /\ clock' = now
         /\ activities' = r.acts
         /\ IF IsSet(r.err)
            THEN pc' = "raised" /\ raised' = r.err
            ELSE pc' = "forward" /\ UNCHANGED raised
    /\ UNCHANGED <<graph, result, prev, calls, nx_trivial, critical, cycles, exported>>
    /\ UNCHANGED <<parser, processor>>

\* calculate(), line 109: self._backward_pass()
BackwardPass ==
    /\ pc = "forward"
    /\ LET r == backward_pass(graph, activities, clock) IN
         /\ activities' = r.acts
         /\ IF IsSet(r.err)
            THEN pc' = "raised" /\ raised' = r.err
            ELSE pc' = "backward" /\ UNCHANGED raised
    /\ UNCHANGED <<graph, result, prev, calls, clock, nx_trivial, critical, cycles, exported>>
    /\ UNCHANGED <<parser, processor>>

\* calculate(), line 110: self._calculate_total_float()
CalculateTotalFloat ==
    /\ pc = "backward"
    /\ activities' = calculate_total_float(activities)
    /\ pc' = "floated"
    /\ UNCHANGED <<graph, raised, result, prev, calls, clock, nx_trivial, critical, cycles, exported>>
    /\ UNCHANGED <<parser, processor>>

\* calculate(), lines 112-124: critical activities, paths, duration, return
FindCriticalPaths ==
    /\ pc = "floated"
    /\ \E trivial \in IF IsSet(nx_trivial) THEN {nx_trivial[1]} ELSE BOOLEAN :
         /\ nx_trivial' = Some(trivial)
         /\ result' = Some(calculate_result(graph, activities, trivial))
    /\ critical' = identify_critical_activities(activities)
    /\ pc' = "returned"
    /\ UNCHANGED <<activities, graph, raised, prev, calls, clock, cycles, exported>>
    /\ UNCHANGED <<parser, processor>>

\* the caller calls calculate() again: on the same calculator (its graph is
\* kept) or on a new CriticalPathCalculator(activities) (line 37: empty graph)
CallAgain ==
    /\ pc = "returned"
    /\ calls < MaxCalls
    /\ \E fresh \in BOOLEAN : graph' = IF fresh THEN EmptyGraph ELSE graph
    /\ pc' = "idle"
    /\ UNCHANGED <<activities, raised, result, prev, calls, clock, nx_trivial, critical, cycles, exported>>
    /\ UNCHANGED <<parser, processor>>

\* the caller of a calculate() that failed on a cycle asks the calculator for
\* the cycles: detect_cycles()
DetectCycles ==
    /\ pc = "raised"
    /\ raised[1].type = "ValueError"
    /\ cycles = None
    /\ cycles' = Some(detect_cycles(graph, activities))
    /\ UNCHANGED <<activities, graph, pc, raised, result, prev, calls, clock, nx_trivial,
                   critical, exported>>
    /\ UNCHANGED <<parser, processor>>

\* the caller hands the returned paths to the exporters (xereader.py, lines
\* 357-363 and 377-383) and ends
ExportCriticalPath ==
    /\ pc = "returned"
    /\ exported' = Some([json |-> json_paths_data(activities, result[1].paths),
                         markdown |-> markdown_paths_dicts(activities, result[1].paths)])
    /\ pc' = "exported"
    /\ UNCHANGED <<activities, graph, raised, result, prev, calls, clock, nx_trivial,
                   critical, cycles>>
    /\ UNCHANGED <<parser, processor>>

Next ==
    \/ BuildGraph
    \/ CheckCycles
    \/ ForwardPass
    \/ BackwardPass
    \/ CalculateTotalFloat
    \/ FindCriticalPaths
    \/ CallAgain
    \/ DetectCycles
    \/ ExportCriticalPath

Spec == Init /\ [][Next]_vars

RemoveAt(s, k) == [m \in 1..(Len(s) - 1) |-> IF m < k THEN s[m] ELSE s[m + 1]]

\* between two calculate() calls on the same calculator the caller removes one
\* dependency from an activity's successors list (a mutable list field)
RemoveDependency ==
    /\ pc \in {"returned", "raised"}
    /\ calls < MaxCalls
    /\ \E i \in DOMAIN activities : \E k \in DOMAIN activities[i].successors :
         activities' = [activities EXCEPT ![i].successors = RemoveAt(@, k)]
    /\ pc' = "idle"
    /\ UNCHANGED <<graph, raised, result, prev, calls, clock, nx_trivial, critical,
                   cycles, exported>>
    /\ UNCHANGED <<parser, processor>>

NextEdit ==
    \/ Next
    \/ RemoveDependency

\* calculators whose activities are edited between the calls
SpecEdit == InitEdit /\ [][NextEdit]_vars

\* the same calculator over dependencies of every relationship kind
SpecKinds == InitKinds /\ [][Next]_vars

\* the same calculator over activities with signed durations
SpecSigned == InitSigned /\ [][Next]_vars

\* ------------------------------------------------------------- scenarios
\* duration_hours = total_seconds() / 3600: the ticks of 0.005 h in an hour
TicksPerHour == 200
Hours(h) == h * TicksPerHour

\* every order in which the elements of S can be listed
Perms(S) == InjSeqs(S, Cardinality(S))

\* the activity list of a scenario: the TASK rows in the given order with the
\* planned dates that give each code its duration, the TASKPRED rows (finish to
\* start, no lag) in the order of deps, each a <<predecessor, successor>>
ScenarioActivities(order, start, dur, deps) ==
    [i \in 1..Len(order) |->
       LET c == order[i]
           mine == SelectSeq(deps, LAMBDA d : d[1] = c)
       IN Activity(c, <<Some(start[c]), Some(start[c] + dur[c])>>,
                   [k \in 1..Len(mine) |->
                      Dependency(mine[k][2], get_dependency_type("PR_FS"), 0)])]

\* Scenario B: A = 1, B = 2, C = 3 with A -> C, A -> B, B -> C
ScenarioB ==
    [codes |-> {1, 2, 3},
     durs |-> {<<Hours(8), Hours(16), Hours(8)>>},
     starts |-> {<<0, 0, 0>>, <<0, Hours(8), Hours(24)>>},
     edges |-> {<<1, 3>>, <<1, 2>>, <<2, 3>>}]

\* Scenario C: A = 1, B = 2 with A -> B, B -> A
ScenarioC ==
    [codes |-> {1, 2},
     durs |-> {<<Hours(8), Hours(8)>>, <<Hours(8), Hours(16)>>},
     starts |-> {<<0, 0>>, <<0, Hours(8)>>},
     edges |-> {<<1, 2>>, <<2, 1>>}]

\* Scenario D: the chain 1 -> 2 and the chain 3, of equal total duration, both
\* ending in the sink 4
ScenarioD ==
    [codes |-> {1, 2, 3, 4},
     durs |-> {<<Hours(8), Hours(8), Hours(16), Hours(8)>>,
               <<Hours(16), Hours(8), Hours(24), Hours(16)>>},
     starts |-> {<<0, 0, 0, 0>>, <<0, Hours(8), 0, Hours(16)>>},
     edges |-> {<<1, 2>>, <<2, 4>>, <<3, 4>>}]

Scenarios == {ScenarioB, ScenarioC, ScenarioD}

\* a new calculator over the activities of one of the scenarios
InitScenarios ==
    /\ \E sc \in Scenarios :
         \E order \in Perms(sc.codes) : \E deps \in Perms(sc.edges) :
           \E dur \in sc.durs : \E start \in sc.starts :
             activities = ScenarioActivities(order, start, dur, deps)
    /\ NewCalculator

\* the same calculator over the scenarios
SpecScenarios == InitScenarios /\ [][Next]_vars

\* ---------------------------------------------------------------- Activity
\* Activity.is_critical(): total_float_hours is set and <= 0
is_critical(a) ==
    IF ~IsSet(a.total_float_hours) THEN FALSE
    ELSE a.total_float_hours[1] <= 0

\* ----------------------------------------------------------- xereader.main
\* validate_activities over the activity list: None, or the ValidationError
validate_activities(acts) ==
    IF Len(acts) = 0 THEN Some(Error("ValidationError", "No activities found"))
    ELSE LET codes == {acts[i].task_code : i \in DOMAIN acts} IN
         IF \E i, j \in DOMAIN acts : i # j /\ acts[i].task_code = acts[j].task_code
         THEN Some(Error("ValidationError", "Duplicate task codes found"))
         ELSE IF \E i \in DOMAIN acts :
                   /\ IsSet(acts[i].planned_start_date) /\ IsSet(acts[i].planned_end_date)
                   /\ acts[i].planned_end_date[1] < acts[i].planned_start_date[1]
         THEN Some(Error("ValidationError", "planned_end_date before planned_start_date"))
         ELSE IF \E i \in DOMAIN acts : \E k \in DOMAIN acts[i].successors :
                   acts[i].successors[k].task_code \notin codes
         THEN Some(Error("ValidationError", "successor not found"))
         ELSE None

\* what detect_cycles() can return: the CycleInfo list, or the empty list it is
\* left with when the listing of the cycles raises (except Exception: pass)
detect_cycles_returns(g, acts) == {detect_cycles(g, acts), <<>>}

\* --format
Formats == {"json", "markdown", "both"}

\* the files main writes for a format, given the cycles_detected list
export_files(format, cycles_detected) ==
    (IF format \in {"json", "both"}
     THEN {"activities.json"} \cup
          (IF cycles_detected = <<>> THEN {"critical_path.json"} ELSE {})
     ELSE {})
    \cup
    (IF format \in {"markdown", "both"}
     THEN {"activities.md"} \cup
          (IF cycles_detected = <<>> THEN {"critical_path.md"} ELSE {})
     ELSE {})

\* main() after the dependencies are processed: the activity list of a run
\* (process_dependencies attaches successors of known activities only) and the
\* parsed arguments; exported holds the format and the files written so far
InitMain ==
    /\ \E n \in 0..MaxActs :
         \E deps \in {d \in DepLists(n) : \A k \in DOMAIN d : d[k].succ # UnknownCode} :
           \E p \in DateProfiles :
             activities = [i \in 1..n |-> Activity(i, p, SuccessorsFrom(deps, i))]
    /\ \E format \in Formats : exported = Some([format |-> format, files |-> {}])
    /\ graph = EmptyGraph
    /\ pc = "main"
    /\ raised = None
    /\ result = None
    /\ prev = None
    /\ calls = 0
    /\ clock = SetMin(Nows)
    /\ nx_trivial = None
    /\ critical = <<>>
    /\ cycles = None
    /\ parser = None
    /\ processor = None

\* main, lines 300-315: validate_activities, the --validate-only return, and
\* CriticalPathCalculator(activities)
MainValidate ==
    /\ pc = "main"
    /\ LET e == validate_activities(activities) IN
       IF IsSet(e)
       THEN pc' = "main_failed" /\ raised' = e
       ELSE /\ \E validate_only \in BOOLEAN :
                 pc' = IF validate_only THEN "main_done" ELSE "main_new"
            /\ UNCHANGED raised
    /\ UNCHANGED <<activities, graph, result, prev, calls, clock, nx_trivial, critical,
                   cycles, exported>>
    /\ UNCHANGED <<parser, processor>>

\* main, line 315: cpm_calculator.build_graph_only()
MainBuildGraphOnly ==
    /\ pc = "main_new"
    /\ graph' = build_graph(graph, activities)
    /\ pc' = "main_built"
    /\ UNCHANGED <<activities, raised, result, prev, calls, clock, nx_trivial, critical,
                   cycles, exported>>
    /\ UNCHANGED <<parser, processor>>

\* main, lines 321 and 330: if cpm_calculator.has_cycles(): ... else: calculate()
MainHasCycles ==
    /\ pc = "main_built"
    /\ pc' = IF has_cycles(graph) THEN "main_cyclic" ELSE "idle"
    /\ UNCHANGED <<activities, graph, raised, result, prev, calls, clock, nx_trivial,
                   critical, cycles, exported>>
    /\ UNCHANGED <<parser, processor>>

\* main, lines 323-329: cycles_detected = detect_cycles(); write_cycles_log
MainDetectCycles ==
    /\ pc = "main_cyclic"
    /\ \E r \in detect_cycles_returns(graph, activities) : cycles' = Some(r)
    /\ exported' = Some([exported[1] EXCEPT !.files = @ \cup {"cycles.log"}])
    /\ pc' = "main_logged"
    /\ UNCHANGED <<activities, graph, raised, result, prev, calls, clock, nx_trivial,
                   critical>>
    /\ UNCHANGED <<parser, processor>>

\* main, lines 345-385: the JSON and Markdown exports; cycles_detected is the
\* empty list unless detect_cycles() was called
MainExport ==
    /\ pc \in {"main_logged", "returned"}
    /\ LET cycles_detected == IF IsSet(cycles) THEN cycles[1] ELSE <<>> IN
       exported' = Some([exported[1] EXCEPT
                           !.files = @ \cup export_files(exported[1].format, cycles_detected)])
    /\ pc' = "main_done"
    /\ UNCHANGED <<activities, graph, raised, result, prev, calls, clock, nx_trivial,
                   critical, cycles>>
    /\ UNCHANGED <<parser, processor>>

NextMain ==
    \/ MainValidate
    \/ MainBuildGraphOnly
    \/ MainHasCycles
    \/ MainDetectCycles
    \/ BuildGraph
    \/ CheckCycles
    \/ ForwardPass
    \/ BackwardPass
    \/ CalculateTotalFloat
    \/ FindCriticalPaths
    \/ MainExport

\* a run of the command-line pipeline from the validation on
SpecMain == InitMain /\ [][NextMain]_vars

\* --------------------------------------------------------------- XERParser
\* a line is held as the cells line.split('\t') gives after rstrip('\n\r')
MaxLines == 4

\* the lines a file is made of
XerLines ==
    { <<"%T", "A">>, <<"%T", "B">>, <<"%T", "">>, <<"%T">>,
      <<"%F", "f", "g">>, <<"%F", "g">>,
      <<"%R", "x", "y">>, <<"%R", "x">>, <<"%R", "", "y", "z">>,
      <<"%E">>, <<"">> }
\* the table names split('\t')[1] can give
TableNames == {l[2] : l \in {m \in XerLines : Len(m) >= 2 /\ m[1] = "%T"}}

\* line.startswith(tag + '\t')
startswith_tab(line, tag) == Len(line) >= 2 /\ line[1] = tag

\* _create_row: one key per field name, the value at the field's index, None
\* when it is missing or empty (a repeated field name keeps its last index)
create_row(fields, values) ==
    [f \in Range(fields) |->
       LET i == SetMax({k \in DOMAIN fields : fields[k] = f})
           value == IF i <= Len(values) THEN values[i] ELSE ""
       IN IF value # "" THEN Some(value) ELSE None]

\* XERParser(file_path) with the lines of the file read
NewParser(lines) ==
    [lines |-> lines,
     line_no |-> 1,
     tables |-> [t \in TableNames |-> None],
     current_table |-> None,
     current_fields |-> <<>>]

\* the body of the loop of _parse_tables for the line at line_no
parse_line(p) ==
    LET line == p.lines[p.line_no]
        q == [p EXCEPT !.line_no = @ + 1]
    IN IF line = <<"">> \/ line[1] = "%E" THEN q
       ELSE IF startswith_tab(line, "%T")
       THEN [q EXCEPT !.current_table = Some(line[2]),
                      !.current_fields = <<>>,
                      !.tables[line[2]] = Some(<<>>)]
       ELSE IF startswith_tab(line, "%F")
       THEN [q EXCEPT !.current_fields = Tail(line)]
       ELSE IF startswith_tab(line, "%R")
       THEN IF /\ IsSet(p.current_table) /\ p.current_table[1] # ""
               /\ p.current_fields # <<>>
            THEN [q EXCEPT !.tables[p.current_table[1]] =
                             Some(Append(@[1], create_row(p.current_fields, Tail(line))))]
            ELSE q
       ELSE q

\* no calculator, processor or command line is at work
NoCalculator ==
    /\ activities = <<>>
    /\ graph = EmptyGraph
    /\ raised = None
    /\ result = None
    /\ prev = None
    /\ calls = 0
    /\ clock = SetMin(Nows)
    /\ nx_trivial = None
    /\ critical = <<>>
    /\ cycles = None
    /\ exported = None

\* parse() has read the lines of a file
InitParser ==
    /\ \E n \in 0..MaxLines : \E lines \in [1..n -> XerLines] : parser = NewParser(lines)
    /\ pc = "parsing"
    /\ processor = None
    /\ NoCalculator

\* _parse_tables: one pass of `for line in lines`
ParseLine ==
    /\ pc = "parsing"
    /\ parser.line_no <= Len(parser.lines)
    /\ parser' = parse_line(parser)
    /\ UNCHANGED <<activities, graph, pc, raised, result, prev, calls, clock, nx_trivial,
                   critical, cycles, exported, processor>>

\* parse(): return self.tables
ParseReturn ==
    /\ pc = "parsing"
    /\ parser.line_no > Len(parser.lines)
    /\ pc' = "parsed"
    /\ UNCHANGED <<activities, graph, raised, result, prev, calls, clock, nx_trivial,
                   critical, cycles, exported, parser, processor>>

NextParser ==
    \/ ParseLine
    \/ ParseReturn

\* XERParser.parse over the lines of a file
SpecParser == InitParser /\ [][NextParser]_vars

\* ------------------------------------------------------- ActivityProcessor
\* a cell of a parsed row is None or Some(text); int(text) and float(text)
\* raise ValueError on text that is no number
MaxTasks == 3
MaxRelations == 2
Digits == <<"1", "2", "3">>
is_number(text) == \E d \in DOMAIN Digits : Digits[d] = text
int_of(text) == CHOOSE d \in DOMAIN Digits : Digits[d] = text
float_hours_of(text) == Hours(int_of(text))

\* the task codes and project ids of the TASK rows explored
RowCodes == {1, 2}
ProjCells == {Some("1"), Some("2")}
\* the TASK table: row i has task_id i
TaskTables ==
    UNION { [1..n -> [proj_id : ProjCells, task_code : RowCodes]] : n \in 0..MaxTasks }
task_row(rows, i) ==
    [task_id |-> Some(Digits[i]), proj_id |-> rows[i].proj_id, task_code |-> rows[i].task_code]

\* the TASKPRED table: one relation of any cells, or relations of numeric ids
IdCells == {None, Some("1"), Some("2"), Some("3"), Some("x")}
LagCells == {None, Some("1")}
TaskPredTables ==
    { <<>> }
    \cup { <<r>> : r \in [task_id : IdCells, pred_task_id : IdCells,
                          pred_type : {"PR_FS", "PR_SS"}, lag_hr_cnt : LagCells] }
    \cup UNION { [1..k -> [task_id : {Some(Digits[d]) : d \in DOMAIN Digits},
                           pred_task_id : {Some(Digits[d]) : d \in DOMAIN Digits},
                           pred_type : {"PR_FS"}, lag_hr_cnt : LagCells]]
                 : k \in 2..MaxRelations }

\* _create_activity_from_row: the fields process_dependencies works with
create_activity_from_row(row) ==
    [task_code |-> row.task_code,
     task_id |-> IF IsSet(row.task_id) THEN Some(int_of(row.task_id[1])) ELSE None,
     proj_id |-> IF IsSet(row.proj_id) THEN Some(int_of(row.proj_id[1])) ELSE None,
     predecessors |-> <<>>,
     successors |-> <<>>]

\* ActivityProcessor(): no activities, empty lookup maps
NewProcessor ==
    [activities |-> <<>>,
     task_id_to_code |-> [t \in DOMAIN Digits |-> None],
     task_id_to_proj_id |-> [t \in DOMAIN Digits |-> None],
     task_code_to_activity |-> [c \in RowCodes |-> None]]

\* process_activities: one Activity per row, the lookup maps filled on the way;
\* task_code_to_activity holds the index of the Activity object
RECURSIVE process_activities(_, _, _)
process_activities(p, task_table, i) ==
    IF i > Len(task_table) THEN p
    ELSE LET activity == create_activity_from_row(task_table[i])
             q == [p EXCEPT !.activities = Append(@, activity),
                            !.task_code_to_activity[activity.task_code] = Some(i)]
             r == IF IsSet(activity.task_id)
                  THEN [q EXCEPT !.task_id_to_code[activity.task_id[1]] =
                                    Some(activity.task_code),
                                 !.task_id_to_proj_id[activity.task_id[1]] =
                                    IF IsSet(activity.proj_id) THEN activity.proj_id ELSE @]
                  ELSE q
         IN process_activities(r, task_table, i + 1)

\* _create_dependency_relation: the DependencyRelation of a row, or None
create_dependency_relation(row) ==
    IF \/ (IsSet(row.task_id) /\ ~is_number(row.task_id[1]))
       \/ (IsSet(row.pred_task_id) /\ ~is_number(row.pred_task_id[1]))
    THEN None
    ELSE IF ~IsSet(row.task_id) \/ ~IsSet(row.pred_task_id) THEN None
    ELSE IF IsSet(row.lag_hr_cnt) /\ ~is_number(row.lag_hr_cnt[1]) THEN None
    ELSE Some([task_id |-> int_of(row.task_id[1]),
               pred_task_id |-> int_of(row.pred_task_id[1]),
               pred_type |-> row.pred_type,
               lag_hr_cnt |-> IF IsSet(row.lag_hr_cnt)
                              THEN float_hours_of(row.lag_hr_cnt[1]) ELSE 0])

\* the second loop of process_dependencies on one relation
link_relation(p, relation) ==
    LET successor_code == p.task_id_to_code[relation.task_id]
        predecessor_code == p.task_id_to_code[relation.pred_task_id]
    IN IF ~IsSet(successor_code) \/ ~IsSet(predecessor_code) THEN p
       ELSE LET successor_activity == p.task_code_to_activity[successor_code[1]]
                predecessor_activity == p.task_code_to_activity[predecessor_code[1]]
            IN IF ~IsSet(successor_activity) \/ ~IsSet(predecessor_activity) THEN p
               ELSE IF p.activities[successor_activity[1]].proj_id
                         # p.activities[predecessor_activity[1]].proj_id THEN p
               ELSE LET dep_type == get_dependency_type(relation.pred_type)
                        predecessor_dep == Dependency(predecessor_code[1], dep_type,
                                                      relation.lag_hr_cnt)
                        successor_dep == Dependency(successor_code[1], dep_type,
                                                    relation.lag_hr_cnt)
                        q == [p EXCEPT !.activities[successor_activity[1]].predecessors =
                                          Append(@, predecessor_dep)]
                    IN [q EXCEPT !.activities[predecessor_activity[1]].successors =
                                    Append(@, successor_dep)]

\* process_dependencies over the rows from the k-th on
RECURSIVE process_dependencies(_, _, _)
process_dependencies(p, taskpred_table, k) ==
    IF k > Len(taskpred_table) THEN p
    ELSE LET relation == create_dependency_relation(taskpred_table[k])
         IN process_dependencies(IF IsSet(relation) THEN link_relation(p, relation[1]) ELSE p,
                                 taskpred_table, k + 1)

\* a new processor and the TASK and TASKPRED tables of a parsed file (held in
\* parser as the tables the processor is given)
InitProcessor ==
    /\ \E rows \in TaskTables : \E taskpred_table \in TaskPredTables :
         parser = [TASK |-> [i \in DOMAIN rows |-> task_row(rows, i)],
                   TASKPRED |-> taskpred_table]
    /\ processor = NewProcessor
    /\ pc = "tables"
    /\ NoCalculator

\* main, line 271: activity_processor.process_activities(parser.get_table('TASK'))
ProcessActivities ==
    /\ pc = "tables"
    /\ processor' = process_activities(processor, parser.TASK, 1)
    /\ pc' = "activities"
    /\ UNCHANGED <<activities, graph, raised, result, prev, calls, clock, nx_trivial,
                   critical, cycles, exported, parser>>

\* main, line 293: activity_processor.process_dependencies(parser.get_table('TASKPRED'))
ProcessDependencies ==
    /\ pc = "activities"
    /\ processor' = process_dependencies(processor, parser.TASKPRED, 1)
    /\ pc' = "dependencies"
    /\ UNCHANGED <<activities, graph, raised, result, prev, calls, clock, nx_trivial,
                   critical, cycles, exported, parser>>

NextProcessor ==
    \/ ProcessActivities
    \/ ProcessDependencies

\* ActivityProcessor over the TASK and TASKPRED tables
SpecProcessor == InitProcessor /\ [][NextProcessor]_vars

\* ================================================================ claims
\* what the claims speak about, written from the input and the CPM fields
ES(i) == activities[i].early_start[1]
EF(i) == activities[i].early_finish[1]
LS(i) == activities[i].late_start[1]
LF(i) == activities[i].late_finish[1]
TF(i) == activities[i].total_float_hours[1]
Dur(i) == activities[i].duration_hours

CPMFields(a) == <<a.early_start, a.early_finish, a.late_start, a.late_finish,
                  a.total_float_hours>>
AllCPM(acts) == [i \in DOMAIN acts |-> CPMFields(acts[i])]

\* the dependency graph has a directed cycle (an elementary cycle exists)
ContainsCycle(g) ==
    \E k \in 1..Len(g.nodes) : \E s \in InjSeqs(NodeSet(g), k) : IsCycle(g, s)

AfterForward == pc \in {"forward", "backward", "floated", "returned"}
AfterBackward == pc \in {"backward", "floated", "returned"}
Returned == pc = "returned"

\* the project start of the last forward pass: the minimum planned_start_date,
\* or the current time it fell back to
ProjectStart ==
    LET S == {activities[i].planned_start_date[1] :
                i \in {j \in DOMAIN activities : IsSet(activities[j].planned_start_date)}}
    IN IF S = {} THEN clock ELSE SetMin(S)
ProjectEnd == SetMax({EF(i) : i \in DOMAIN activities})

PredsOf(i) == {p \in DOMAIN activities : HasEdge(graph, activities[p].task_code,
                                                    activities[i].task_code)}
SuccsOf(i) == {q \in DOMAIN activities : HasEdge(graph, activities[i].task_code,
                                                    activities[q].task_code)}
LagOf(p, q) == graph.lag[<<activities[p].task_code, activities[q].task_code>>]

\* C1: cycle gate. When the graph built by calculate() contains a directed
\* cycle, the call goes from the built graph straight to a raised ValueError:
\* no step taken on a cyclic graph assigns or changes a CPM field of any
\* activity, and no result (paths, duration) is returned.
C1_CycleGate ==
    [][ContainsCycle(graph') =>
          /\ pc' \in {"built", "raised"}
          /\ (pc' = "raised" => raised'[1].type = "ValueError")
          /\ result' = None
          /\ AllCPM(activities') = AllCPM(activities)]_vars

\* C1 witness: calculate() has raised on a cyclic graph of two or more activities
C1_Witness ==
    /\ pc = "raised"
    /\ raised[1].type = "ValueError"
    /\ ContainsCycle(graph)
    /\ Len(activities) >= 2

\* C2: forward pass. After the forward pass every activity without predecessors
\* has early_start = project start, and every activity with predecessors has
\* early_start = max over its predecessors p of p.early_finish + lag(p -> it),
\* whatever the sign of the lags.
C2_ForwardPassExact ==
    AfterForward =>
      \A i \in DOMAIN activities :
        IF PredsOf(i) = {} THEN ES(i) = ProjectStart
        ELSE ES(i) = SetMax({EF(p) + LagOf(p, i) : p \in PredsOf(i)})

\* C3: backward pass. After the backward pass every activity without successors
\* has late_finish = project end (the maximum early_finish), and every activity
\* with successors has late_finish = min over its successors s of
\* s.late_start - lag(it -> s), whatever the sign of the lags.
C3_BackwardPassExact ==
    AfterBackward =>
      \A i \in DOMAIN activities :
        IF SuccsOf(i) = {} THEN LF(i) = ProjectEnd
        ELSE LF(i) = SetMin({LS(q) - LagOf(i, q) : q \in SuccsOf(i)})

CritCodes ==
    {activities[i].task_code : i \in {j \in DOMAIN activities : LS(j) - ES(j) <= FloatTolerance}}
CritSources == {v \in CritCodes : \A u \in CritCodes : ~HasEdge(graph, u, v)}
CritSinks == {v \in CritCodes : \A w \in CritCodes : ~HasEdge(graph, v, w)}
IsChain(s) == \A m \in 1..(Len(s) - 1) : HasEdge(graph, s[m], s[m + 1])

\* every simple path from a source to a sink of the critical subgraph; a
\* critical activity with no critical neighbour is a path of one node
SourceSinkPaths ==
    UNION { {s \in InjSeqs(CritCodes, k) :
                s[1] \in CritSources /\ s[k] \in CritSinks /\ IsChain(s)}
            : k \in 1..Cardinality(CritCodes) }

CodeDur(c) == Dur(CHOOSE i \in DOMAIN activities : activities[i].task_code = c)
RECURSIVE CodeSum(_)
CodeSum(s) == IF s = <<>> THEN 0 ELSE CodeDur(Head(s)) + CodeSum(Tail(s))
MaxSum(P) == SetMax({CodeSum(q) : q \in P})

PathCodes(path) == [m \in DOMAIN path |-> activities[path[m]].task_code]
ReturnedPaths == {PathCodes(result[1].paths[k]) : k \in DOMAIN result[1].paths}
NoPathTwice ==
    \A k, l \in DOMAIN result[1].paths :
       result[1].paths[k] = result[1].paths[l] => k = l
PathsWellFormed ==
    \A q \in ReturnedPaths : Range(q) \subseteq CritCodes /\ IsChain(q)

\* the source-to-sink paths nx.all_simple_paths enumerates: those with an edge,
\* and the one-node paths when the library yields them
EnumeratedPaths == {q \in SourceSinkPaths : Len(q) >= 2 \/ nx_trivial[1]}

\* C6 as stated: whenever the critical subgraph has a source-to-sink path, the
\* returned paths are exactly the source-to-sink simple paths whose duration is
\* within 0.01 hours of the longest, none twice, each a chain of critical activities.
C6_PathSelection_Stated ==
    (Returned /\ SourceSinkPaths # {}) =>
      /\ ReturnedPaths =
           {q \in SourceSinkPaths : MaxSum(SourceSinkPaths) - CodeSum(q) <= PathTolerance}
      /\ NoPathTwice
      /\ PathsWellFormed

\* C6 amended: whenever the path enumeration yields a path, the returned paths
\* are exactly the enumerated source-to-sink simple paths whose duration is
\* less than 0.01 hours below the longest enumerated one, none twice, each a
\* chain of critical activities in dependency order.
C6_PathSelection ==
    (Returned /\ EnumeratedPaths # {}) =>
      /\ ReturnedPaths =
           {q \in EnumeratedPaths : MaxSum(EnumeratedPaths) - CodeSum(q) < PathTolerance}
      /\ NoPathTwice
      /\ PathsWellFormed

\* C6 witness: two source-to-sink paths are critical, one is 0.005 hours shorter
\* than the other and returned with it; or one is 0.01 hours shorter and left out
C6_Witness ==
    /\ Returned
    /\ \E q1, q2 \in EnumeratedPaths :
         /\ Len(q1) >= 2 /\ Len(q2) >= 2
         /\ CodeSum(q1) = MaxSum(EnumeratedPaths)
         /\ CodeSum(q2) = CodeSum(q1) - PathTolerance
         /\ q1 \in ReturnedPaths /\ q2 \notin ReturnedPaths
    /\ Len(result[1].paths) >= 1

\* C6 second case reached too: a path 0.005 hours shorter is returned
C6_WitnessShorterReturned ==
    /\ Returned
    /\ \E q1, q2 \in ReturnedPaths : CodeSum(q2) = CodeSum(q1) - 1

AllLagsZero ==
    \A i \in DOMAIN activities : \A k \in DOMAIN activities[i].successors :
       activities[i].successors[k].lag_hours = 0
IdxSum(path) == CodeSum(PathCodes(path))

\* C7 as stated: whenever calculate() returns a non-empty list of paths, some
\* returned path has a duration equal to project_duration_hours, for every lag.
C7_ChainMatchesDuration_Stated ==
    (Returned /\ result[1].paths # <<>>) =>
      \E k \in DOMAIN result[1].paths : IdxSum(result[1].paths[k]) = result[1].duration

\* C7 amended: project_duration_hours = max(early_finish) - min(early_start), and
\* when every dependency has lag 0 and the enumeration covers every critical
\* activity (none is isolated in the critical subgraph, or the library yields
\* one-node paths), some returned path has a duration equal to it.
C7_ChainMatchesDuration ==
    (Returned /\ result[1].paths # <<>>) =>
      /\ result[1].duration = SetMax({EF(i) : i \in DOMAIN activities})
                              - SetMin({ES(i) : i \in DOMAIN activities})
      /\ (AllLagsZero /\ (nx_trivial[1] \/ CritSources \cap CritSinks = {})) =>
            \E k \in DOMAIN result[1].paths :
               IdxSum(result[1].paths[k]) = result[1].duration

\* C7 witness: a chain of three activities without lag is returned and its
\* duration, more than zero, is the project duration
C7_Witness ==
    /\ Returned
    /\ AllLagsZero
    /\ \E k \in DOMAIN result[1].paths :
         /\ Len(result[1].paths[k]) = MaxActs
         /\ IdxSum(result[1].paths[k]) = result[1].duration
    /\ result[1].duration > 0

\* C8: idempotence. A second calculate() over the unmodified activities, on the
\* same calculator or on a new one, returns the same paths in the same order
\* and the same project duration as the call before it.
C8_Idempotent ==
    (Returned /\ calls >= 2) => result = prev

\* C8 witness: a second call has returned paths for activities without any
\* planned_start_date, the project start having fallen back to the later time
C8_Witness ==
    /\ Returned
    /\ calls >= 2
    /\ NoPlannedStart
    /\ clock = SetMax(Nows)
    /\ \E i \in DOMAIN activities : ES(i) = clock
    /\ Len(result[1].paths) >= 1

CycleMessage == "Graph contains cycles - cannot calculate critical path"
RaisedValueError == pc = "raised" /\ raised[1].type = "ValueError"

TaskCodes == {activities[i].task_code : i \in DOMAIN activities}

\* C10: a successor dependency naming a task code of no activity is dropped or
\* rejected: the graph never holds a node for a code that no activity has, and
\* the forward pass never runs into such a node.
C10_UnknownSuccessorHandled ==
    /\ NodeSet(graph) \subseteq TaskCodes
    /\ ~(pc = "raised" /\ raised[1].type = "KeyError")

\* ---- the graph against the activities' successor lists
GraphBuilt == pc # "idle"
AllSuccessorsKnown ==
    \A i \in DOMAIN activities : \A k \in DOMAIN activities[i].successors :
       activities[i].successors[k].task_code \in TaskCodes

\* C11: once the graph is built over activities whose successors all name known
\* task codes, its nodes are exactly the task codes, and every dependency listed
\* on an activity has an edge activity -> successor that carries that
\* dependency's lag and kind, also when two dependencies of one activity name
\* the same successor with different lags.
C11_EdgeCarriesEachDependency ==
    (GraphBuilt /\ AllSuccessorsKnown) =>
      /\ NodeSet(graph) = TaskCodes
      /\ \A i \in DOMAIN activities : \A k \in DOMAIN activities[i].successors :
            LET d == activities[i].successors[k]
                e == <<activities[i].task_code, d.task_code>>
            IN /\ HasEdge(graph, e[1], e[2])
               /\ graph.lag[e] = d.lag_hours
               /\ graph.dep_type[e] = d.dependency_type

\* ---- has_cycles() and detect_cycles() against the cycles of the graph
CycleChecked == pc \notin {"idle", "built"}
WellNumbered(r) ==
    \A k \in DOMAIN r :
       /\ r[k].cycle_id = k
       /\ r[k].length = Len(r[k].task_codes)
       /\ r[k].length = Len(r[k].task_names)

NonNegativeDurations == \A i \in DOMAIN activities : Dur(i) >= 0
FinishAfterStart ==
    \A i \in DOMAIN activities : EF(i) >= ES(i) /\ LF(i) >= LS(i)

\* C13 as stated: for every acyclic input, after calculate() every activity has
\* early_finish >= early_start and late_finish >= late_start.
C13_FinishAfterStart_Stated ==
    Returned => FinishAfterStart

\* C13 amended: for every acyclic input whose activities all have a duration of
\* zero or more (no planned_end_date before its planned_start_date), after
\* calculate() every activity has early_finish >= early_start and
\* late_finish >= late_start.
C13_FinishAfterStart ==
    (Returned /\ NonNegativeDurations) => FinishAfterStart

\* C13 witness: calculate() has returned over three activities of non-negative
\* duration, one of them longer than zero, joined by a dependency
C13_Witness ==
    /\ Returned
    /\ NonNegativeDurations
    /\ Len(activities) = MaxActs
    /\ \E i \in DOMAIN activities : Dur(i) > 0 /\ EF(i) > ES(i) /\ PredsOf(i) # {}

\* ---- what a newly constructed calculator computes from the activities as they are
FreshGraph == build_graph(EmptyGraph, activities)
FreshRun(acts, now, trivial) ==
    LET g == build_graph(EmptyGraph, acts)
        f == forward_pass(g, acts, now).acts
        b == backward_pass(g, f, now).acts
        t == calculate_total_float(b)
    IN [acts |-> t, result |-> calculate_result(g, t, trivial)]

\* C14: the graph is fresh per calculate() call. After every build the graph is
\* the graph of the activities and dependencies as they are at that call, the
\* cycle check answers for that graph, and the returned paths and duration are
\* those of that graph, also when a dependency was removed from a successors
\* list since the call before.
C14_GraphFreshPerCall ==
    /\ GraphBuilt => graph = FreshGraph
    /\ CycleChecked => (RaisedValueError <=> ContainsCycle(FreshGraph))
    /\ Returned => result[1] = FreshRun(activities, clock, nx_trivial[1]).result

\* ---- the passes against every topological order of the graph
TopologicalOrders(g) ==
    {s \in InjSeqs(NodeSet(g), Len(g.nodes)) :
        \A a, b \in DOMAIN s : a < b => ~HasEdge(g, s[b], s[a])}
ClearEarly(acts) ==
    [i \in DOMAIN acts |-> [acts[i] EXCEPT !.early_start = None, !.early_finish = None]]
ClearLate(acts) ==
    [i \in DOMAIN acts |-> [acts[i] EXCEPT !.late_start = None, !.late_finish = None]]
EarlyFields(acts) == [i \in DOMAIN acts |-> <<acts[i].early_start, acts[i].early_finish>>]
LateFields(acts) == [i \in DOMAIN acts |-> <<acts[i].late_start, acts[i].late_finish>>]

\* C15: the order the passes take is a topological order of the graph, so every
\* predecessor's early_finish (every successor's late_start) is assigned in the
\* same pass before it is read; the early values after the forward pass, the
\* late values after the backward pass and the floats are those computed from
\* unassigned fields along any topological order of the graph, so neither a
\* value left by an earlier call nor the choice of the order shows in them.
C15_OrderIndependent ==
    /\ pc \in {"forward", "backward"} =>
          topological_sort(graph).order \in TopologicalOrders(graph)
    /\ pc = "forward" =>
          \A ord \in TopologicalOrders(graph) :
             EarlyFields(ForwardLoop(graph, ClearEarly(activities), ord, 1, ProjectStart).acts)
               = EarlyFields(activities)
    /\ pc = "backward" =>
          \A ord \in TopologicalOrders(graph) :
             LateFields(BackwardLoop(graph, ClearLate(activities), Reverse(ord), 1,
                                     ProjectEnd).acts)
               = LateFields(activities)
    /\ pc = "floated" =>
          \A i \in DOMAIN activities : TF(i) = LS(i) - ES(i)

\* C15 witness: the backward pass of a second call has run over three
\* activities whose graph has an edge, more than one topological order, and a
\* node order in the graph that is not topological
C15_Witness ==
    /\ pc = "backward"
    /\ calls = 2
    /\ Len(activities) = MaxActs
    /\ Cardinality(TopologicalOrders(graph)) >= 2
    /\ graph.nodes \notin TopologicalOrders(graph)
    /\ \E i \in DOMAIN activities : PredsOf(i) # {} /\ ES(i) > ProjectStart

\* ---- the same input with every dependency made Finish-to-Start
EraseKinds(acts) ==
    [i \in DOMAIN acts |->
       [acts[i] EXCEPT !.successors =
          [k \in DOMAIN @ |-> [@[k] EXCEPT !.dependency_type = "FS"]]]]
DependencyKinds ==
    UNION {{activities[i].successors[k].dependency_type : k \in DOMAIN activities[i].successors}
           : i \in DOMAIN activities}

\* C16: the relationship kind has no effect. What calculate() leaves in the
\* early/late start/finish and float fields and what it returns (paths,
\* project duration) is what it computes for the input that differs only in
\* having every dependency_type FS; so any two inputs that differ only in the
\* kinds of some edges give identical results.
C16_KindHasNoEffect ==
    Returned =>
      LET fs == FreshRun(EraseKinds(activities), clock, nx_trivial[1])
      IN /\ AllCPM(activities) = AllCPM(fs.acts)
         /\ result[1] = fs.result

\* C16 witness: calculate() has returned for dependencies of two kinds other
\* than FS, one of which pushed its successor past the project start
C16_Witness ==
    /\ Returned
    /\ Cardinality(DependencyKinds \ {"FS"}) >= 2
    /\ \E i \in DOMAIN activities : \E p \in PredsOf(i) :
         /\ graph.dep_type[<<activities[p].task_code, activities[i].task_code>>] = "SS"
         /\ ES(i) = EF(p) + LagOf(p, i)
         /\ ES(i) > ProjectStart

\* ---- critical activities without any dependency between two of them
CriticalDisconnected ==
    /\ Cardinality(CritCodes) >= 2
    /\ \A u, v \in CritCodes : ~HasEdge(graph, u, v)
MaxCritDur == SetMax({CodeDur(c) : c \in CritCodes})

\* C17 as stated: when two or more activities are critical and no dependency
\* joins any two of them, calculate() returns exactly one path, which holds
\* all the critical activities.
C17_DegradedMode_Stated ==
    (Returned /\ CriticalDisconnected) =>
      /\ Len(result[1].paths) = 1
      /\ Range(PathCodes(result[1].paths[1])) = CritCodes

\* C17 amended: when two or more activities are critical and no dependency
\* joins any two of them, calculate() raises nothing and returns, if the
\* library yields no one-node path (networkx before 3.2), exactly one path
\* holding all the critical activities in list order; and if it yields them
\* (networkx 3.2 on), one one-activity path for each critical activity whose
\* duration is less than 0.01 hours below the longest critical duration.
C17_DegradedMode ==
    (Returned /\ CriticalDisconnected) =>
      IF nx_trivial[1]
      THEN /\ ReturnedPaths =
                {<<c>> : c \in {d \in CritCodes : MaxCritDur - CodeDur(d) < PathTolerance}}
           /\ NoPathTwice
      ELSE /\ Len(result[1].paths) = 1
           /\ result[1].paths[1] = critical
           /\ Range(PathCodes(critical)) = CritCodes

\* C17 witness: of three activities two are critical, no dependency joins
\* them, the library yields no one-node path, and one path holding both is returned
C17_Witness ==
    /\ Returned
    /\ CriticalDisconnected
    /\ ~nx_trivial[1]
    /\ Len(activities) = MaxActs
    /\ Cardinality(CritCodes) = 2
    /\ Len(result[1].paths) = 1
    /\ Len(result[1].paths[1]) = 2

NoActivities == Len(activities) = 0

\* C18: an empty activity list is not an error. calculate() on it finds no
\* cycle (has_cycles() false, detect_cycles() empty), raises nothing in any
\* step, and returns the empty result ([], 0.0).
C18_EmptyInput ==
    NoActivities =>
      /\ pc # "raised"
      /\ raised = None
      /\ GraphBuilt => (~has_cycles(graph) /\ detect_cycles(graph, activities) = <<>>)
      /\ Returned => result[1] = [paths |-> <<>>, duration |-> 0]

\* C18 witness: calculate() has returned on an empty activity list
C18_Witness ==
    /\ NoActivities
    /\ Returned
    /\ result[1].paths = <<>>
    /\ result[1].duration = 0

\* C19: for every non-empty acyclic activity list calculate() returns at least
\* one critical path, each with at least one activity (the empty result comes
\* only from an empty list), and the project duration is more than zero
\* whenever some activity has a duration of more than zero.
C19_SomePathReturned ==
    Returned =>
      /\ (result[1].paths = <<>>) <=> NoActivities
      /\ \A k \in DOMAIN result[1].paths : Len(result[1].paths[k]) >= 1
      /\ (\E i \in DOMAIN activities : Dur(i) > 0) => result[1].duration > 0

\* C19 witness: for three activities of which one is not critical and one has
\* a duration of more than zero, a path and a duration above zero are returned
C19_Witness ==
    /\ Returned
    /\ Len(activities) = MaxActs
    /\ Cardinality(CritCodes) < MaxActs
    /\ \E i \in DOMAIN activities : Dur(i) > 0
    /\ Len(result[1].paths) >= 1
    /\ result[1].duration > 0

\* ---- the exported critical-path output against the returned paths
Exported == pc = "exported"
ExportWellFormed(out) ==
    /\ Len(out) = Len(result[1].paths)
    /\ \A k \in DOMAIN out :
          /\ out[k].path_id = k
          /\ out[k].is_primary <=> (k = 1)
          /\ Len(out[k].activities) = Len(result[1].paths[k])
          /\ \A m \in DOMAIN out[k].activities :
                /\ out[k].activities[m].sequence = m
                /\ out[k].activities[m].task_code = activities[result[1].paths[k][m]].task_code
    /\ Cardinality({k \in DOMAIN out : out[k].is_primary}) = 1

\* C20: for every non-empty list of returned critical paths, the JSON and the
\* Markdown critical-path output each flag exactly one path as primary, the
\* first path returned (path_id 1; headed "Primary Path", the others
\* "Alternate Path"); path_ids are 1..N in returned order and the activities of
\* each path carry the sequence numbers 1..len(path) in path order.
C20_OnePrimaryPath ==
    (Exported /\ result[1].paths # <<>>) =>
      /\ ExportWellFormed(exported[1].json)
      /\ ExportWellFormed(exported[1].markdown)
      /\ \A k \in DOMAIN exported[1].markdown :
            path_label(exported[1].markdown[k]) = "Primary Path" <=> (k = 1)

\* C20 witness: two or more paths were exported, a later one longer in
\* activities than the first
C20_Witness ==
    /\ Exported
    /\ Len(exported[1].json) >= 2
    /\ \E k \in DOMAIN exported[1].json :
         exported[1].json[k].activity_count > exported[1].json[1].activity_count

\* the dependencies of the input, each a <<predecessor, successor>> pair
InputEdges ==
    UNION {{<<activities[i].task_code, activities[i].successors[k].task_code>>
              : k \in DOMAIN activities[i].successors} : i \in DOMAIN activities}
\* the input is the scenario sc with the durations dur
InputIs(sc, dur) ==
    /\ Len(activities) = Cardinality(sc.codes)
    /\ TaskCodes = sc.codes
    /\ InputEdges = sc.edges
    /\ AllLagsZero
    /\ \A i \in DOMAIN activities : Dur(i) = dur[activities[i].task_code]
ScenarioBDurations == <<Hours(8), Hours(16), Hours(8)>>

\* C21 as stated: in Scenario B (A -> C, A -> B, B -> C without lag, A and C of
\* 8 h, B of 16 h) calculate() returns exactly one critical path, [A, B, C],
\* with a duration of 24 h and project_duration_hours = 24, and [A, C] is not
\* returned.
C21_ScenarioB_Stated ==
    (Returned /\ InputIs(ScenarioB, ScenarioBDurations)) =>
      /\ Len(result[1].paths) = 1
      /\ ReturnedPaths = {<<1, 2, 3>>}
      /\ CodeSum(<<1, 2, 3>>) = Hours(24)
      /\ result[1].duration = Hours(24)

\* C21 amended: in Scenario B calculate() returns exactly one critical path,
\* [A, B, C], whose duration is 8 + 16 + 8 = 32 h, with
\* project_duration_hours = 32; [A, C] (16 h) is not returned.
C21_ScenarioB ==
    (Returned /\ InputIs(ScenarioB, ScenarioBDurations)) =>
      /\ Len(result[1].paths) = 1
      /\ ReturnedPaths = {<<1, 2, 3>>}
      /\ <<1, 3>> \notin ReturnedPaths
      /\ CodeSum(<<1, 2, 3>>) = Hours(32)
      /\ result[1].duration = Hours(32)

\* C21 witness: calculate() has returned on Scenario B, where [A, C] is a chain
\* of critical activities from the source to the sink
C21_Witness ==
    /\ Returned
    /\ InputIs(ScenarioB, ScenarioBDurations)
    /\ {1, 3} \subseteq CritCodes
    /\ HasEdge(graph, 1, 3)
    /\ CodeSum(<<1, 3>>) = Hours(16)

ScenarioDDurations == <<Hours(8), Hours(8), Hours(16), Hours(8)>>
ScenarioDInput == \E dur \in ScenarioD.durs : InputIs(ScenarioD, dur)

\* C22: in Scenario D (the chains 1 -> 2 and 3, of equal total duration, both
\* ending without lag in the sink 4) calculate() returns exactly two critical
\* paths, one per chain, each ending in the sink, both with the same summed
\* duration, which is the project duration.
C22_ScenarioD ==
    (Returned /\ ScenarioDInput) =>
      /\ Len(result[1].paths) = 2
      /\ ReturnedPaths = {<<1, 2, 4>>, <<3, 4>>}
      /\ \A q \in ReturnedPaths : q[Len(q)] = 4
      /\ CodeSum(<<1, 2, 4>>) = CodeSum(<<3, 4>>)
      /\ result[1].duration = CodeSum(<<3, 4>>)

\* C22 witness: calculate() has returned two paths on Scenario D with chains of
\* 16 h before a sink of 8 h
C22_Witness ==
    /\ Returned
    /\ InputIs(ScenarioD, ScenarioDDurations)
    /\ Len(result[1].paths) = 2
    /\ CodeSum(<<1, 2>>) = Hours(16)
    /\ CodeDur(3) = Hours(16)

ScenarioCInput == \E dur \in ScenarioC.durs : InputIs(ScenarioC, dur)
\* the report is one cycle of length 2 through the codes 1 and 2
OneCycleOfTwo(r) ==
    /\ Len(r) = 1
    /\ r[1].length = 2
    /\ Len(r[1].task_codes) = 2
    /\ Range(r[1].task_codes) = {1, 2}

\* C23: in Scenario C (A -> B, B -> A) detect_cycles() on the built graph
\* reports exactly one cycle, of length 2, with the task codes A and B, and
\* calculate() raises the ValueError of the cycle gate: no pass runs and no
\* result is returned.
C23_ScenarioC ==
    ScenarioCInput =>
      /\ GraphBuilt => OneCycleOfTwo(detect_cycles(graph, activities))
      /\ IsSet(cycles) => OneCycleOfTwo(cycles[1])
      /\ CycleChecked => (RaisedValueError /\ raised[1].message = CycleMessage)
      /\ pc \in {"idle", "built", "raised"}
      /\ result = None

\* C23 witness: on Scenario C calculate() has raised and detect_cycles() has
\* been asked for the cycles
C23_Witness ==
    /\ ScenarioCInput
    /\ RaisedValueError
    /\ IsSet(cycles)
    /\ cycles[1][1].task_codes \in {<<1, 2>>, <<2, 1>>}

\* the activities whose early_finish is the maximum
LastFinishing == {i \in DOMAIN activities : EF(i) = ProjectEnd}

C29_IsCriticalAgrees ==
    Returned =>
      /\ \A i \in DOMAIN activities :
            is_critical(activities[i]) <=> InSeq(identify_critical_activities(activities), i)
      /\ \A k \in DOMAIN result[1].paths : \A m \in DOMAIN result[1].paths[k] :
            is_critical(activities[result[1].paths[k][m]])

FilesWritten == exported[1].files
CriticalPathFiles == {"critical_path.json", "critical_path.md"}
ActivitiesFiles(format) ==
    (IF format \in {"json", "both"} THEN {"activities.json"} ELSE {})
    \cup (IF format \in {"markdown", "both"} THEN {"activities.md"} ELSE {})

\* C24: in a run of the command-line pipeline on an input whose dependency
\* graph has a cycle, calculate() is never invoked, the cycles log is written,
\* the activities output of the chosen format is written, and no critical-path
\* file (JSON or Markdown) is written, for every --format and whatever
\* detect_cycles() returns.
C24_CyclicRun ==
    (pc = "main_done" /\ ContainsCycle(graph)) =>
      /\ calls = 0
      /\ result = None
      /\ "cycles.log" \in FilesWritten
      /\ ActivitiesFiles(exported[1].format) \subseteq FilesWritten
      /\ FilesWritten \cap CriticalPathFiles = {}

\* the graph one build makes of the activities on an empty nx.DiGraph
BuiltOnce == build_graph(EmptyGraph, activities)
\* the dependencies of the input close a cycle
InputHasCycle ==
    \E k \in 1..Len(activities) : \E s \in InjSeqs(TaskCodes, k) :
       /\ \A m \in 1..(k - 1) : <<s[m], s[m + 1]>> \in InputEdges
       /\ <<s[k], s[1]>> \in InputEdges

\* C30: on a newly constructed calculator, before build_graph_only() or
\* calculate(), has_cycles() is false and detect_cycles() returns the empty list
\* whatever the dependencies are; once the graph is built both reflect the
\* dependencies; and the second build (build_graph_only() followed by
\* calculate()) leaves the graph that one build gives.
C30_CheckAfterBuild ==
    /\ pc = "main_new" =>
          /\ ~has_cycles(graph)
          /\ \A r \in detect_cycles_returns(graph, activities) : r = <<>>
    /\ pc = "main_built" =>
          /\ has_cycles(graph) <=> InputHasCycle
          /\ (detect_cycles(graph, activities) # <<>>) <=> InputHasCycle
    /\ pc \in {"main_built", "idle", "built"} => graph = BuiltOnce

\* C30 witness: calculate() has built the graph a second time, after
\* build_graph_only(), from activities with two dependencies of different lags
\* between one pair
C30_Witness ==
    /\ pc = "built"
    /\ calls = 1
    /\ graph = BuiltOnce
    /\ \E i \in DOMAIN activities : \E k, l \in DOMAIN activities[i].successors :
          /\ k < l
          /\ activities[i].successors[k].task_code = activities[i].successors[l].task_code
          /\ activities[i].successors[k].lag_hours # activities[i].successors[l].lag_hours

\* the lines of the file by kind, and what the claim calls accepted
Lines == parser.lines
IsT(k) == startswith_tab(Lines[k], "%T")
IsF(k) == startswith_tab(Lines[k], "%F")
IsR(k) == startswith_tab(Lines[k], "%R")
\* the most recent %T line before line k, and the most recent %F line after it
LastT(k) == SetMax({0} \cup {t \in 1..(k - 1) : IsT(t)})
LastF(k) == SetMax({0} \cup {f \in (LastT(k) + 1)..(k - 1) : IsF(f)})
AcceptedR(k) == IsR(k) /\ LastT(k) > 0 /\ LastF(k) > 0
TableOfR(k) == Lines[LastT(k)][2]
\* the row of an accepted %R line: the fields of the %F line, each with the
\* value at its position, None when missing or empty
RowOfR(k) ==
    LET fields == Tail(Lines[LastF(k)])
        values == Tail(Lines[k])
    IN [f \in Range(fields) |->
          LET i == CHOOSE j \in DOMAIN fields : fields[j] = f
          IN IF i <= Len(values) /\ values[i] # "" THEN Some(values[i]) ELSE None]
RECURSIVE Ascending(_)
Ascending(S) == IF S = {} THEN <<>> ELSE <<SetMin(S)>> \o Ascending(S \ {SetMin(S)})
RowsOfLines(K) == LET ks == Ascending(K) IN [j \in DOMAIN ks |-> RowOfR(ks[j])]
Parsed == pc = "parsed"

\* C25: every %R line that follows a %T line and the %F line of that table is
\* appended to the table the most recent %T line names, as a row keyed by the
\* fields of the most recent %F line (missing or empty values None, surplus
\* values dropped); the other %R lines are ignored; so each table holds, in
\* order, the rows of its accepted %R lines, as many rows as lines.
C25_RowsOfAcceptedLines ==
    Parsed =>
      \A name \in TableNames :
        LET K == {k \in DOMAIN Lines : AcceptedR(k) /\ TableOfR(k) = name}
        IN /\ IsSet(parser.tables[name]) <=> (\E t \in DOMAIN Lines : IsT(t) /\ Lines[t][2] = name)
           /\ K # {} => IsSet(parser.tables[name])
           /\ IsSet(parser.tables[name]) =>
                 /\ Len(parser.tables[name][1]) = Cardinality(K)
                 /\ parser.tables[name][1] = RowsOfLines(K)

\* the activities of the processor and the relations the claim speaks of
PActs == processor.activities
Linked == pc = "dependencies"
WithTaskId(cell) ==
    {i \in DOMAIN PActs : IsSet(cell) /\ is_number(cell[1])
                           /\ PActs[i].task_id = Some(int_of(cell[1]))}
\* both task ids of the relation are known and of one project
LinksActivities(row) ==
    \E s \in WithTaskId(row.task_id) : \E p \in WithTaskId(row.pred_task_id) :
       PActs[s].proj_id = PActs[p].proj_id
SuccessorOf(row) == CHOOSE s \in WithTaskId(row.task_id) : TRUE
PredecessorOf(row) == CHOOSE p \in WithTaskId(row.pred_task_id) : TRUE
LagHours(row) == IF IsSet(row.lag_hr_cnt) THEN float_hours_of(row.lag_hr_cnt[1]) ELSE 0
\* the entries the relations give activity i, in the order of the rows
LinkingRows == SelectSeq(parser.TASKPRED, LinksActivities)
SuccessorEntries(i) ==
    LET mine == SelectSeq(LinkingRows, LAMBDA row : PredecessorOf(row) = i)
    IN [k \in DOMAIN mine |->
          Dependency(PActs[SuccessorOf(mine[k])].task_code,
                     get_dependency_type(mine[k].pred_type), LagHours(mine[k]))]
PredecessorEntries(i) ==
    LET mine == SelectSeq(LinkingRows, LAMBDA row : SuccessorOf(row) = i)
    IN [k \in DOMAIN mine |->
          Dependency(PActs[PredecessorOf(mine[k])].task_code,
                     get_dependency_type(mine[k].pred_type), LagHours(mine[k]))]
UniqueTaskCodes ==
    \A i, j \in DOMAIN PActs : PActs[i].task_code = PActs[j].task_code => i = j

\* C26: after process_dependencies every TASKPRED relation whose two task ids
\* are known and of one project has given the activity of the predecessor id one
\* successors entry and the activity of the successor id one predecessors
\* entry, of the relation's type and lag, and the other relations have given
\* nothing, also when activities of different projects share a task_code.
C26_EntriesByTaskId ==
    Linked =>
      \A i \in DOMAIN PActs :
        /\ PActs[i].successors = SuccessorEntries(i)
        /\ PActs[i].predecessors = PredecessorEntries(i)

====
